---- MODULE Spec2Model ----
(***************************************************************************)
(* sketch.js: four grid builders (square, triangular, hexagon-corners,     *)
(* circular-polar), the random walk that grows a tree over the built       *)
(* graph one edge per draw() tick, the leaf colouring, and the restart on  *)
(* exhaustion.                                                             *)
(*                                                                         *)
(* Numbers.  JavaScript numbers that are not integers (the triangular,     *)
(* hexagon and circular positions) are modelled in fixed point, in units   *)
(* of 1e-6 ("micro"); sines and cosines are tabulated in units of 1e-8.    *)
(* Node keys are the strings the template literals of the source produce.  *)
(***************************************************************************)
EXTENDS Integers, Sequences, FiniteSets, TLC

VARIABLES
  width, height,   \* canvas size given to createCanvas (p5 globals)
  phase,           \* "load" before setup(), "running" after, "crashed" on a throw
  posMap,          \* key -> [x, y] (micro units)
  adj,             \* key -> set of neighbour keys
  visited,         \* array of keys, in visiting order
  visitedSet,      \* Set of keys
  linkCount,       \* object: key -> degree counter
  deadMarked,      \* Set of leaf-marked keys
  currentGrid,     \* the grid type of the cycle
  lines,           \* canvas: the line() segments drawn since background()
  dots,            \* canvas: key -> number of ellipse() dots drawn since background()
  tick             \* history: what the last setup() or draw() call did

vars == <<width, height, phase, posMap, adj, visited, visitedSet, linkCount,
          deadMarked, currentGrid, lines, dots, tick>>

-----------------------------------------------------------------------------
(* Program constants *)

cellSize == 20
hexRadius == 20
CanvasSize == 600
GRID_TYPES == {"square", "triangular", "hexagon", "circular"}
dotColors == {"#FF7F7F", "#7F9EFF", "#FFF97F"}

(* Bounds of the model *)

\* side of the (scaled-down) canvas the walk is explored on
WalkSize == 80
\* the builders are also run on canvases MinCanvas + CanvasStride*k, k <= BuildSteps
BuildSteps == 4

MinCanvas == 4 * cellSize
CanvasStride == cellSize

-----------------------------------------------------------------------------
(* Numbers *)

Micro == 1000 * 1000

Range(s) == {s[i] : i \in DOMAIN s}

Min2(a, b) == IF a <= b THEN a ELSE b
Max2(a, b) == IF a >= b THEN a ELSE b

\* a * c, for an integer a and c in units of 1e-8; the result in micro units
MulE8(a, c) == (a * (c \div 10000)) * 100 + (a * (c % 10000)) \div 100

\* round(x*100): Math.round is floor(x + 0.5); x in micro units, result in 1/100
Round100(xU) == (xU + 5000) \div 10000

\* `${v}` for the number v = c/100 (c >= 0 or not): at most two decimals, no
\* trailing zeros, no decimal point for an integer
NumStr(c) ==
  LET a == IF c < 0 THEN -c ELSE c
      ip == a \div 100
      f == a % 100
      frac == IF f = 0 THEN ""
              ELSE IF f % 10 = 0 THEN "." \o ToString(f \div 10)
              ELSE IF f < 10 THEN ".0" \o ToString(f)
              ELSE "." \o ToString(f)
  IN (IF c < 0 THEN "-" ELSE "") \o ToString(ip) \o frac

\* `${a},${b}` for integers a, b
coordKey(a, b) == ToString(a) \o "," \o ToString(b)

\* key.split(',').map(Number), for a key made of two integers of is x js
ParseKey(key, is, js) == CHOOSE p \in is \X js : coordKey(p[1], p[2]) = key

\* a Map after the set(key, value) calls of `entries` (a sequence of
\* <<key, value>>), made in order: a later set of the same key wins
MapOf(entries) ==
  LET keys == {entries[n][1] : n \in DOMAIN entries}
      last(k) == CHOOSE n \in DOMAIN entries :
                   /\ entries[n][1] = k
                   /\ \A m \in DOMAIN entries : entries[m][1] = k => m <= n
  IN [k \in keys |-> entries[last(k)][2]]

EmptyMap == [k \in {} |-> 0]

-----------------------------------------------------------------------------
(* BUILD: SQUARE GRID *)

SQUARE_DIRS == {<<1, 0>>, << -1, 0>>, <<0, 1>>, <<0, -1>>}

\* faulty variant: the seed taken at the centre pixel instead of the centre cell
SquareStartPixels(cols, rows) == coordKey((cols * cellSize) \div 2, (rows * cellSize) \div 2)

SquareStart(cols, rows) == coordKey(cols \div 2, rows \div 2)

\* faulty variant: the loops run over every cell, the outermost ring included
SquareCellsWithEdges(cols, rows) ==
  [n \in 1 .. cols * rows |-> <<(n - 1) \div rows, (n - 1) % rows>>]

\* the (i, j) of the nested loops over the interior cells, in loop order
SquareCells(cols, rows) ==
  [n \in 1 .. (cols - 2) * (rows - 2) |->
     <<1 + ((n - 1) \div (rows - 2)), 1 + ((n - 1) % (rows - 2))>>]

buildSquareGraph(w, h) ==
  LET cols == w \div cellSize + 1
      rows == h \div cellSize + 1
      cells == SquareCells(cols, rows)
      is == {cells[n][1] : n \in DOMAIN cells}
      js == {cells[n][2] : n \in DOMAIN cells}
      entries == [n \in DOMAIN cells |->
                    <<coordKey(cells[n][1], cells[n][2]),
                      [x |-> cells[n][1] * cellSize * Micro,
                       y |-> cells[n][2] * cellSize * Micro]>>]
      pm == MapOf(entries)
      links(key) ==
        LET ij == ParseKey(key, is, js)
        IN {nk \in {coordKey(ij[1] + d[1], ij[2] + d[2]) : d \in SQUARE_DIRS} :
              nk \in DOMAIN pm}
  IN [posMap |-> pm,
      adj |-> [key \in DOMAIN pm |-> links(key)],
      startKeys |-> {SquareStart(cols, rows)}]

-----------------------------------------------------------------------------
(* BUILD: TRIANGULAR GRID *)

\* faulty variant: the sixth axial direction left out
TRI_DIRS_FIVE == {<<1, 0>>, << -1, 0>>, <<0, 1>>, <<0, -1>>, <<1, -1>>}

TRI_DIRS == {<<1, 0>>, << -1, 0>>, <<0, 1>>, <<0, -1>>, <<1, -1>>, << -1, 1>>}

\* sqrt(3)/2 in units of 1e-8
SQRT3_HALF_E8 == 86602540

buildTriGraph(w, h) ==
  LET maxQ == w \div cellSize + 1
      maxR == h \div cellSize + 1
      qs == -maxQ .. maxQ
      rs == -maxR .. maxR
      nr == 2 * maxR + 1
      cell(n) == <<((n - 1) \div nr) - maxQ, ((n - 1) % nr) - maxR>>
      xOf(q, r) == (w * Micro) \div 2 + cellSize * (2 * q + r) * (Micro \div 2)
      yOf(q, r) == (h * Micro) \div 2 + MulE8(cellSize * r, SQRT3_HALF_E8)
      inside(q, r) ==
        /\ xOf(q, r) >= cellSize * Micro
        /\ xOf(q, r) <= (w - cellSize) * Micro
        /\ yOf(q, r) >= cellSize * Micro
        /\ yOf(q, r) <= (h - cellSize) * Micro
      all == [n \in 1 .. (2 * maxQ + 1) * nr |-> cell(n)]
      kept == SelectSeq(all, LAMBDA c : inside(c[1], c[2]))
      entries == [n \in DOMAIN kept |->
                    <<coordKey(kept[n][1], kept[n][2]),
                      [x |-> xOf(kept[n][1], kept[n][2]),
                       y |-> yOf(kept[n][1], kept[n][2])]>>]
      pm == MapOf(entries)
      links(key) ==
        LET qr == ParseKey(key, qs, rs)
        IN {nk \in {coordKey(qr[1] + d[1], qr[2] + d[2]) : d \in TRI_DIRS} :
              nk \in DOMAIN pm}
  IN [posMap |-> pm,
      adj |-> [key \in DOMAIN pm |-> links(key)],
      startKeys |-> {coordKey(0, 0)}]

-----------------------------------------------------------------------------
(* Squared distances of positions given in 1/100: too wide for 32 bits, so   *)
(* kept as <<hi, lo>> = hi * 10000 + lo, 0 <= lo < 10000.                    *)

Abs(a) == IF a < 0 THEN -a ELSE a

Sq(d) ==
  LET a == Abs(d) \div 100
      b == Abs(d) % 100
      low == 200 * a * b + b * b
  IN <<a * a + low \div 10000, low % 10000>>

Dist2(x1, y1, x2, y2) ==
  LET sx == Sq(x1 - x2)
      sy == Sq(y1 - y2)
  IN <<sx[1] + sy[1] + (sx[2] + sy[2]) \div 10000, (sx[2] + sy[2]) % 10000>>

Less(d, e) == d[1] < e[1] \/ (d[1] = e[1] /\ d[2] < e[2])

\* a Map after `if (!has(key)) set(key, value)` for each of `entries`, in order
MapOfFirst(entries) ==
  LET keys == {entries[n][1] : n \in DOMAIN entries}
      first(k) == CHOOSE n \in DOMAIN entries :
                    /\ entries[n][1] = k
                    /\ \A m \in DOMAIN entries : entries[m][1] = k => n <= m
  IN [k \in keys |-> entries[first(k)][2]]

\* `${xR},${yR}` for xR, yR in 1/100
PosKey(xc, yc) == NumStr(xc) \o "," \o NumStr(yc)

\* {x: xR, y: yR} for xR, yR in 1/100
PosOf(xc, yc) == [x |-> xc * 10000, y |-> yc * 10000]

-----------------------------------------------------------------------------
(* BUILD: HEXAGON-CORNERS GRID *)

\* sqrt(3) in units of 1e-8
SQRT3_E8 == 173205081

\* cos and sin of PI/6 + PI/3*i in units of 1e-8, at index i + 1
HEX_COS_E8 == <<86602540, 0, -86602540, -86602540, 0, 86602540>>
HEX_SIN_E8 == <<50000000, 100000000, 50000000, -50000000, -100000000, -50000000>>

\* the keys at the least distance from the canvas centre.  The source keeps
\* the first key whose dist() is strictly less; keys at exactly equal distance
\* are told apart only by the rounding of dist(), so any of them may win.
NearestToCentre(pm, w, h) ==
  LET d(k) == Dist2(pm[k].x \div 10000, pm[k].y \div 10000, 50 * w, 50 * h)
  IN {k \in DOMAIN pm : \A o \in DOMAIN pm : ~Less(d(o), d(k))}

buildHexGraph(w, h) ==
  LET wHex == MulE8(hexRadius, SQRT3_E8)
      hHex == (3 * hexRadius * Micro) \div 2
      maxQ == (w * Micro) \div wHex + 2
      maxR == (h * Micro) \div hHex + 2
      nr == 2 * maxR + 1
      cell(n) == <<((n - 1) \div nr) - maxQ, ((n - 1) % nr) - maxR>>
      cxOf(q, r) == (w * Micro) \div 2 + (wHex \div 2) * (2 * q + r)
      cyOf(q, r) == (h * Micro) \div 2 + hHex * r
      inside(q, r) ==
        /\ cxOf(q, r) - hexRadius * Micro >= 0
        /\ cxOf(q, r) + hexRadius * Micro <= w * Micro
        /\ cyOf(q, r) - hexRadius * Micro >= 0
        /\ cyOf(q, r) + hexRadius * Micro <= h * Micro
      all == [n \in 1 .. (2 * maxQ + 1) * nr |-> cell(n)]
      hexes == SelectSeq(all, LAMBDA c : inside(c[1], c[2]))
      \* the rounded corner i (0..5) of hexagon number n, in 1/100
      xR(n, i) == Round100(cxOf(hexes[n][1], hexes[n][2])
                           + MulE8(hexRadius, HEX_COS_E8[i + 1]))
      yR(n, i) == Round100(cyOf(hexes[n][1], hexes[n][2])
                           + MulE8(hexRadius, HEX_SIN_E8[i + 1]))
      corners == [n \in DOMAIN hexes |-> [i \in 0 .. 5 |-> PosKey(xR(n, i), yR(n, i))]]
      entries == [m \in 1 .. 6 * Len(hexes) |->
                    LET n == 1 + ((m - 1) \div 6)
                        i == (m - 1) % 6
                    IN <<corners[n][i], PosOf(xR(n, i), yR(n, i))>>]
      pm == MapOfFirst(entries)
      links == UNION {{<<corners[n][i], corners[n][(i + 1) % 6]>>,
                       <<corners[n][(i + 1) % 6], corners[n][i]>>} :
                      n \in DOMAIN hexes, i \in 0 .. 5}
  IN [posMap |-> pm,
      adj |-> [key \in DOMAIN pm |-> {l[2] : l \in {l \in links : l[1] = key}}],
      startKeys |-> NearestToCentre(pm, w, h)]

-----------------------------------------------------------------------------
(* BUILD: CIRCULAR (POLAR) GRID *)

\* TWO_PI in micro units
TWO_PI == 6283185

\* cos(TWO_PI * j / n) in units of 1e-8, at index j + 1, for the ring sizes n
COS_E8(n) ==
  CASE n = 6 ->
      <<100000000, 50000000, -50000000, -100000000, -50000000, 50000000>>
    [] n = 12 ->
      <<100000000, 86602540, 50000000, 0, -50000000, -86602540, -100000000, -86602540,
        -50000000, 0, 50000000, 86602540>>
    [] n = 18 ->
      <<100000000, 93969262, 76604444, 50000000, 17364818, -17364818, -50000000, -76604444,
        -93969262, -100000000, -93969262, -76604444, -50000000, -17364818, 17364818,
        50000000, 76604444, 93969262>>
    [] n = 25 ->
      <<100000000, 96858316, 87630668, 72896863, 53582679, 30901699, 6279052, -18738131,
        -42577929, -63742399, -80901699, -92977649, -99211470, -99211470, -92977649,
        -80901699, -63742399, -42577929, -18738131, 6279052, 30901699, 53582679, 72896863,
        87630668, 96858316>>
    [] n = 31 ->
      <<100000000, 97952994, 91895781, 82076344, 68896692, 52896401, 34730525, 15142778,
        -5064917, -25065253, -44039415, -61210598, -75875812, -87434662, -95413926,
        -99486932, -99486932, -95413926, -87434662, -75875812, -61210598, -44039415,
        -25065253, -5064917, 15142778, 34730525, 52896401, 68896692, 82076344, 91895781,
        97952994>>
    [] n = 37 ->
      <<100000000, 98561591, 94287745, 87301411, 77803575, 66067472, 52430728, 37285648,
        21067927, 4244120, -12701782, -29282277, -45020374, -59463318, -72195609, -82850965,
        -91122849, -96773295, -99639749, -99639749, -96773295, -91122849, -82850965,
        -72195609, -59463318, -45020374, -29282277, -12701782, 4244120, 21067927, 37285648,
        52430728, 66067472, 77803575, 87301411, 94287745, 98561591>>
    [] n = 43 ->
      <<100000000, 98934337, 95760060, 90544824, 83399782, 74477218, 63967302, 52094034,
        39110472, 25293338, 10937121, -3652202, -18163685, -32288040, -45724232, -58185892,
        -69407420, -79149649, -87204941, -93401611, -97607588, -99733228, -99733228,
        -97607588, -93401611, -87204941, -79149649, -69407420, -58185892, -45724232,
        -32288040, -18163685, -3652202, 10937121, 25293338, 39110472, 52094034, 63967302,
        74477218, 83399782, 90544824, 95760060, 98934337>>
    [] n = 50 ->
      <<100000000, 99211470, 96858316, 92977649, 87630668, 80901699, 72896863, 63742399,
        53582679, 42577929, 30901699, 18738131, 6279052, -6279052, -18738131, -30901699,
        -42577929, -53582679, -63742399, -72896863, -80901699, -87630668, -92977649,
        -96858316, -99211470, -100000000, -99211470, -96858316, -92977649, -87630668,
        -80901699, -72896863, -63742399, -53582679, -42577929, -30901699, -18738131,
        -6279052, 6279052, 18738131, 30901699, 42577929, 53582679, 63742399, 72896863,
        80901699, 87630668, 92977649, 96858316, 99211470>>
    [] n = 56 ->
      <<100000000, 99371221, 97492791, 94388333, 90096887, 84672420, 78183148, 70710678,
        62348980, 53203208, 43388374, 33027906, 22252093, 11196448, 0, -11196448, -22252093,
        -33027906, -43388374, -53203208, -62348980, -70710678, -78183148, -84672420,
        -90096887, -94388333, -97492791, -99371221, -100000000, -99371221, -97492791,
        -94388333, -90096887, -84672420, -78183148, -70710678, -62348980, -53203208,
        -43388374, -33027906, -22252093, -11196448, 0, 11196448, 22252093, 33027906,
        43388374, 53203208, 62348980, 70710678, 78183148, 84672420, 90096887, 94388333,
        97492791, 99371221>>
    [] n = 62 ->
      <<100000000, 99486932, 97952994, 95413926, 91895781, 87434662, 82076344, 75875812,
        68896692, 61210598, 52896401, 44039415, 34730525, 25065253, 15142778, 5064917,
        -5064917, -15142778, -25065253, -34730525, -44039415, -52896401, -61210598,
        -68896692, -75875812, -82076344, -87434662, -91895781, -95413926, -97952994,
        -99486932, -100000000, -99486932, -97952994, -95413926, -91895781, -87434662,
        -82076344, -75875812, -68896692, -61210598, -52896401, -44039415, -34730525,
        -25065253, -15142778, -5064917, 5064917, 15142778, 25065253, 34730525, 44039415,
        52896401, 61210598, 68896692, 75875812, 82076344, 87434662, 91895781, 95413926,
        97952994, 99486932>>
    [] n = 69 ->
      <<100000000, 99585684, 98346170, 96291729, 93439384, 89812771, 85441940, 80363112,
        74618369, 68255314, 61326675, 53889864, 46006504, 37741920, 29164594, 20345601,
        11358019, 2276320, -6824241, -15868255, -24780779, -33487961, -41917652, -50000000,
        -57668032, -64858209, -71510950, -77571129, -82988529, -87718260, -91721130,
        -94963970, -97419908, -99068595, -99896367, -99896367, -99068595, -97419908,
        -94963970, -91721130, -87718260, -82988529, -77571129, -71510950, -64858209,
        -57668032, -50000000, -41917652, -33487961, -24780779, -15868255, -6824241, 2276320,
        11358019, 20345601, 29164594, 37741920, 46006504, 53889864, 61326675, 68255314,
        74618369, 80363112, 85441940, 89812771, 93439384, 96291729, 98346170, 99585684>>
    [] n = 75 ->
      <<100000000, 99649286, 98599604, 96858316, 94437637, 91354546, 87630668, 83292124,
        78369346, 72896863, 66913061, 60459911, 53582679, 46329604, 38751559, 30901699,
        22835087, 14608303, 6279052, -2094242, -10452846, -18738131, -26891982, -34857205,
        -42577929, -50000000, -57071357, -63742399, -69966334, -75699506, -80901699,
        -85536426, -89571176, -92977649, -95731950, -97814760, -99211470, -99912283,
        -99912283, -99211470, -97814760, -95731950, -92977649, -89571176, -85536426,
        -80901699, -75699506, -69966334, -63742399, -57071357, -50000000, -42577929,
        -34857205, -26891982, -18738131, -10452846, -2094242, 6279052, 14608303, 22835087,
        30901699, 38751559, 46329604, 53582679, 60459911, 66913061, 72896863, 78369346,
        83292124, 87630668, 91354546, 94437637, 96858316, 98599604, 99649286>>
    [] n = 81 ->
      <<100000000, 99699294, 98798985, 97304487, 95224789, 92572397, 89363264, 85616690,
        81355207, 76604444, 71392973, 65752137, 59715859, 53320443, 46604352, 39607977,
        32373394, 24944114, 17364818, 9681087, 1939133, -5814483, -13533130, -21170387,
        -28680323, -36017772, -43138607, -50000000, -56560688, -62781212, -68624164,
        -74054401, -79039267, -83548781, -87555823, -91036294, -93969262, -96337088,
        -98125531, -99323836, -99924795, -99924795, -99323836, -98125531, -96337088,
        -93969262, -91036294, -87555823, -83548781, -79039267, -74054401, -68624164,
        -62781212, -56560688, -50000000, -43138607, -36017772, -28680323, -21170387,
        -13533130, -5814483, 1939133, 9681087, 17364818, 24944114, 32373394, 39607977,
        46604352, 53320443, 59715859, 65752137, 71392973, 76604444, 81355207, 85616690,
        89363264, 92572397, 95224789, 97304487, 98798985, 99699294>>
    [] n = 87 ->
      <<100000000, 99739323, 98958652, 97662056, 95856295, 93550784, 90757542, 87491133,
        83768585, 79609307, 75034982, 70069460, 64738628, 59070280, 53093965, 46840844,
        40343516, 33635856, 26752834, 19730335, 12604971, 5413891, -1805415, -9015308,
        -16178200, -23256746, -30214042, -37013816, -43620617, -50000000, -56118707,
        -61944836, -67448014, -72599549, -77372584, -81742234, -85685718, -89182476,
        -92214278, -94765317, -96822294, -98374484, -99413796, -99934810, -99934810,
        -99413796, -98374484, -96822294, -94765317, -92214278, -89182476, -85685718,
        -81742234, -77372584, -72599549, -67448014, -61944836, -56118707, -50000000,
        -43620617, -37013816, -30214042, -23256746, -16178200, -9015308, -1805415, 5413891,
        12604971, 19730335, 26752834, 33635856, 40343516, 46840844, 53093965, 59070280,
        64738628, 70069460, 75034982, 79609307, 83768585, 87491133, 90757542, 93550784,
        95856295, 97662056, 98958652, 99739323>>

\* sin(TWO_PI * j / n) in units of 1e-8, at index j + 1, for the ring sizes n
SIN_E8(n) ==
  CASE n = 6 ->
      <<0, 86602540, 86602540, 0, -86602540, -86602540>>
    [] n = 12 ->
      <<0, 50000000, 86602540, 100000000, 86602540, 50000000, 0, -50000000, -86602540,
        -100000000, -86602540, -50000000>>
    [] n = 18 ->
      <<0, 34202014, 64278761, 86602540, 98480775, 98480775, 86602540, 64278761, 34202014,
        0, -34202014, -64278761, -86602540, -98480775, -98480775, -86602540, -64278761,
        -34202014>>
    [] n = 25 ->
      <<0, 24868989, 48175367, 68454711, 84432793, 95105652, 99802673, 98228725, 90482705,
        77051324, 58778525, 36812455, 12533323, -12533323, -36812455, -58778525, -77051324,
        -90482705, -98228725, -99802673, -95105652, -84432793, -68454711, -48175367,
        -24868989>>
    [] n = 31 ->
      <<0, 20129852, 39435586, 57126822, 72479279, 84864426, 93775213, 98846832, 99871651,
        96807712, 89780454, 79077574, 65137248, 48530196, 29936312, 10116832, -10116832,
        -29936312, -48530196, -65137248, -79077574, -89780454, -96807712, -99871651,
        -98846832, -93775213, -84864426, -72479279, -57126822, -39435586, -20129852>>
    [] n = 37 ->
      <<0, 16900082, 33313979, 48769494, 62822000, 75067231, 85152914, 92788903, 97755524,
        99909897, 99190044, 95616673, 89292586, 80399713, 69193887, 55997479, 41190125,
        25197806, 8480592, -8480592, -25197806, -41190125, -55997479, -69193887, -80399713,
        -89292586, -95616673, -99190044, -99909897, -97755524, -92788903, -85152914,
        -75067231, -62822000, -48769494, -33313979, -16900082>>
    [] n = 43 ->
      <<0, 14560117, 28809910, 42445670, 55176774, 66731881, 76864714, 85359309, 92034618,
        96748370, 99400098, 99933285, 98336568, 94643977, 88934215, 81328974, 71990347,
        61117371, 48941785, 35723089, 21743018, 7299531, -7299531, -21743018, -35723089,
        -48941785, -61117371, -71990347, -81328974, -88934215, -94643977, -98336568,
        -99933285, -99400098, -96748370, -92034618, -85359309, -76864714, -66731881,
        -55176774, -42445670, -28809910, -14560117>>
    [] n = 50 ->
      <<0, 12533323, 24868989, 36812455, 48175367, 58778525, 68454711, 77051324, 84432793,
        90482705, 95105652, 98228725, 99802673, 99802673, 98228725, 95105652, 90482705,
        84432793, 77051324, 68454711, 58778525, 48175367, 36812455, 24868989, 12533323, 0,
        -12533323, -24868989, -36812455, -48175367, -58778525, -68454711, -77051324,
        -84432793, -90482705, -95105652, -98228725, -99802673, -99802673, -98228725,
        -95105652, -90482705, -84432793, -77051324, -68454711, -58778525, -48175367,
        -36812455, -24868989, -12533323>>
    [] n = 56 ->
      <<0, 11196448, 22252093, 33027906, 43388374, 53203208, 62348980, 70710678, 78183148,
        84672420, 90096887, 94388333, 97492791, 99371221, 100000000, 99371221, 97492791,
        94388333, 90096887, 84672420, 78183148, 70710678, 62348980, 53203208, 43388374,
        33027906, 22252093, 11196448, 0, -11196448, -22252093, -33027906, -43388374,
        -53203208, -62348980, -70710678, -78183148, -84672420, -90096887, -94388333,
        -97492791, -99371221, -100000000, -99371221, -97492791, -94388333, -90096887,
        -84672420, -78183148, -70710678, -62348980, -53203208, -43388374, -33027906,
        -22252093, -11196448>>
    [] n = 62 ->
      <<0, 10116832, 20129852, 29936312, 39435586, 48530196, 57126822, 65137248, 72479279,
        79077574, 84864426, 89780454, 93775213, 96807712, 98846832, 99871651, 99871651,
        98846832, 96807712, 93775213, 89780454, 84864426, 79077574, 72479279, 65137248,
        57126822, 48530196, 39435586, 29936312, 20129852, 10116832, 0, -10116832, -20129852,
        -29936312, -39435586, -48530196, -57126822, -65137248, -72479279, -79077574,
        -84864426, -89780454, -93775213, -96807712, -98846832, -99871651, -99871651,
        -98846832, -96807712, -93775213, -89780454, -84864426, -79077574, -72479279,
        -65137248, -57126822, -48530196, -39435586, -29936312, -20129852, -10116832>>
    [] n = 69 ->
      <<0, 9093486, 18111621, 26979677, 35624171, 43973472, 51958395, 59512774, 66574012,
        73083596, 78987587, 84237062, 88788522, 92604252, 95652634, 97908409, 99352883,
        99974088, 99766877, 98732966, 96880922, 94226092, 90790476, 86602540, 81696989,
        76114471, 69901245, 63108794, 55793405, 48015693, 39840109, 31334397, 22569038,
        13616665, 4551460, -4551460, -13616665, -22569038, -31334397, -39840109, -48015693,
        -55793405, -63108794, -69901245, -76114471, -81696989, -86602540, -90790476,
        -94226092, -96880922, -98732966, -99766877, -99974088, -99352883, -97908409,
        -95652634, -92604252, -88788522, -84237062, -78987587, -73083596, -66574012,
        -59512774, -51958395, -43973472, -35624171, -26979677, -18111621, -9093486>>
    [] n = 75 ->
      <<0, 8367784, 16676875, 24868989, 32886665, 40673664, 48175367, 55339155, 62114778,
        68454711, 74314483, 79652992, 84432793, 88620358, 92186315, 95105652, 97357890,
        98927233, 99802673, 99978068, 99452190, 98228725, 96316257, 93728199, 90482705,
        86602540, 82114921, 77051324, 71447268, 65342060, 58778525, 51802701, 44463518,
        36812455, 28903180, 20791169, 12533323, 4187565, -4187565, -12533323, -20791169,
        -28903180, -36812455, -44463518, -51802701, -58778525, -65342060, -71447268,
        -77051324, -82114921, -86602540, -90482705, -93728199, -96316257, -98228725,
        -99452190, -99978068, -99802673, -98927233, -97357890, -95105652, -92186315,
        -88620358, -84432793, -79652992, -74314483, -68454711, -62114778, -55339155,
        -48175367, -40673664, -32886665, -24868989, -16676875, -8367784>>
    [] n = 81 ->
      <<0, 7749242, 15451879, 23061587, 30532600, 37819986, 44879918, 51669937, 58149207,
        64278761, 70021735, 75343590, 80212319, 84598643, 88476180, 91821611, 94614816,
        96838996, 98480775, 99530280, 99981197, 99830816, 99080040, 97733386, 95798951,
        93288370, 90216742, 86602540, 82467500, 77836491, 72737364, 67200786, 61260055,
        54950898, 48311260, 41381072, 34202014, 26817261, 19271226, 11609291, 3877537,
        -3877537, -11609291, -19271226, -26817261, -34202014, -41381072, -48311260,
        -54950898, -61260055, -67200786, -72737364, -77836491, -82467500, -86602540,
        -90216742, -93288370, -95798951, -97733386, -99080040, -99830816, -99981197,
        -99530280, -98480775, -96838996, -94614816, -91821611, -88476180, -84598643,
        -80212319, -75343590, -70021735, -64278761, -58149207, -51669937, -44879918,
        -37819986, -30532600, -23061587, -15451879, -7749242>>
    [] n = 87 ->
      <<0, 7215776, 14393931, 21497044, 28488081, 35330594, 41988910, 48428315, 54615238,
        60517422, 66104096, 71346133, 76216206, 80688922, 84740963, 88351204, 91500823,
        94173400, 96354999, 98034249, 99202393, 99853341, 99983701, 99592792, 98682652,
        97258027, 95326343, 92897672, 89984675, 86602540, 82768900, 78503741, 73829299,
        68769946, 63352058, 57603882, 51555386, 45238104, 38684971, 31930153, 25008866,
        17957194, 10811902, 3610241, -3610241, -10811902, -17957194, -25008866, -31930153,
        -38684971, -45238104, -51555386, -57603882, -63352058, -68769946, -73829299,
        -78503741, -82768900, -86602540, -89984675, -92897672, -95326343, -97258027,
        -98682652, -99592792, -99983701, -99853341, -99202393, -98034249, -96354999,
        -94173400, -91500823, -88351204, -84740963, -80688922, -76216206, -71346133,
        -66104096, -60517422, -54615238, -48428315, -41988910, -35330594, -28488081,
        -21497044, -14393931, -7215776>>

\* prev.forEach(pk => { ... if (d2 < bestD) { bestD = d2; best = pk; } }), from
\* index m on; found is <<best, bestD>>, or <<>> while bestD is Infinity
RECURSIVE Closest(_, _, _, _, _)
Closest(pm, k, prev, m, found) ==
  IF m > Len(prev) THEN found[1]
  ELSE LET d2 == Dist2(pm[prev[m]].x \div 10000, pm[prev[m]].y \div 10000,
                       pm[k].x \div 10000, pm[k].y \div 10000)
       IN Closest(pm, k, prev, m + 1,
                  IF found = <<>> \/ Less(d2, found[2]) THEN <<prev[m], d2>> ELSE found)

\* n = max(6, floor(2*PI*i)): the number of points of ring i
RingSize(i) == Max2(6, (TWO_PI * i) \div Micro)

buildCircularGraph(w, h) ==
  LET cx == (w * Micro) \div 2
      cy == (h * Micro) \div 2
      maxRing == (Min2(w, h) - 2 * cellSize) \div (2 * cellSize)
      centerKey == PosKey(Round100(cx), Round100(cy))
      xR(i, j) == Round100(cx + MulE8(i * cellSize, COS_E8(RingSize(i))[j + 1]))
      yR(i, j) == Round100(cy + MulE8(i * cellSize, SIN_E8(RingSize(i))[j + 1]))
      \* rings[i][j + 1] for i >= 1
      rings == [i \in 1 .. maxRing |->
                  [j1 \in 1 .. RingSize(i) |-> PosKey(xR(i, j1 - 1), yR(i, j1 - 1))]]
      ringEntries(i) == [j1 \in 1 .. RingSize(i) |->
                           <<rings[i][j1], PosOf(xR(i, j1 - 1), yR(i, j1 - 1))>>]
      RECURSIVE entriesUpTo(_)
      entriesUpTo(i) == IF i = 0 THEN <<<<centerKey, [x |-> cx, y |-> cy]>>>>
                        ELSE entriesUpTo(i - 1) \o ringEntries(i)
      pm == MapOf(entriesUpTo(maxRing))
      \* link ring 0 <-> ring 1
      spokes == UNION {{<<centerKey, k>>, <<k, centerKey>>} : k \in Range(rings[1])}
      \* link each ring in a loop
      loops == UNION {{<<rings[i][j1], rings[i][(j1 % RingSize(i)) + 1]>>,
                       <<rings[i][(j1 % RingSize(i)) + 1], rings[i][j1]>>} :
                      <<i, j1>> \in {p \in (1 .. maxRing) \X (1 .. RingSize(maxRing)) :
                                       p[2] <= RingSize(p[1])}}
      radial == UNION {LET k == rings[p[1]][p[2]]
                           best == Closest(pm, k, rings[p[1] - 1], 1, <<>>)
                       IN {<<k, best>>, <<best, k>>} :
                       p \in {p \in (2 .. maxRing) \X (1 .. RingSize(maxRing)) :
                                p[2] <= RingSize(p[1])}}
      links == spokes \cup loops \cup radial
  IN [posMap |-> pm,
      adj |-> [key \in DOMAIN pm |-> {l[2] : l \in {l \in links : l[1] = key}}],
      startKeys |-> {centerKey}]

-----------------------------------------------------------------------------
(* The builders read nothing but the canvas size: the graphs they build on   *)
(* the canvases of the specifications below are tabulated once.              *)

buildGraph(g, w, h) ==
  CASE g = "square" -> buildSquareGraph(w, h)
    [] g = "triangular" -> buildTriGraph(w, h)
    [] g = "hexagon" -> buildHexGraph(w, h)
    [] g = "circular" -> buildCircularGraph(w, h)

BuildSizes == {MinCanvas + CanvasStride * k : k \in 0 .. BuildSteps}

WalkCanvases == {<<WalkSize, WalkSize>>}
BuildCanvases == (BuildSizes \X BuildSizes) \cup {<<CanvasSize, CanvasSize>>}

GraphTable ==
  {<<c, g, buildGraph(g, c[1], c[2])>> : c \in WalkCanvases \cup BuildCanvases, g \in GRID_TYPES}

\* what the builder of grid type g builds on the w x h canvas
Built(g, w, h) == (CHOOSE t \in GraphTable : t[1] = <<w, h>> /\ t[2] = g)[3]

-----------------------------------------------------------------------------
(* WALK SUPPORT *)

\* adj.get(k) or posMap.get(k) is undefined: using it throws a TypeError
Missing(k) == k \notin DOMAIN adj \/ k \notin DOMAIN posMap

\* faulty variant: the filter on visitedSet left out
getAllNeighbors(k, vset) == adj[k]

\* getUnvisitedNeighbors(k), as a set, against the Set vset
getUnvisitedNeighbors(k, vset) == adj[k] \ vset

\* the walk state markAllLeaves reads and writes; `marked` lists the keys the
\* call has drawn a dot for, in order
WalkState == [visited |-> visited, visitedSet |-> visitedSet,
              linkCount |-> linkCount, deadMarked |-> deadMarked,
              dots |-> dots, marked |-> <<>>]

\* faulty variant: the test without `linkCount[k] === 1`
IsNewLeafAnyDegree(ws, k) ==
  /\ k \notin ws.deadMarked
  /\ getUnvisitedNeighbors(k, ws.visitedSet) = {}

\* faulty variant: the test without `!deadMarked.has(k)`
IsLeafUnguarded(ws, k) ==
  /\ k \in DOMAIN ws.linkCount /\ ws.linkCount[k] = 1
  /\ getUnvisitedNeighbors(k, ws.visitedSet) = {}

\* the test of markAllLeaves on key k
IsNewLeaf(ws, k) ==
  /\ k \notin ws.deadMarked
  /\ k \in DOMAIN ws.linkCount /\ ws.linkCount[k] = 1
  /\ getUnvisitedNeighbors(k, ws.visitedSet) = {}

\* visited.forEach(k => { if (test) { ellipse; deadMarked.add(k) } }).  The
\* test on a key reads no mark but that key's own, so the loop marks, in
\* visiting order, the first occurrence of every key that passes the test on
\* entry.
markAllLeaves(ws) ==
  LET first == {i \in DOMAIN ws.visited : \A j \in 1 .. i - 1 : ws.visited[j] # ws.visited[i]}
      new == {ws.visited[i] : i \in {i \in first : IsNewLeaf(ws, ws.visited[i])}}
  IN [ws EXCEPT !.deadMarked = @ \cup new,
                !.dots = [x \in DOMAIN @ \cup new |->
                            (IF x \in DOMAIN @ THEN @[x] ELSE 0)
                            + (IF x \in new THEN 1 ELSE 0)],
                !.marked = [n \in 1 .. Cardinality(new) |->
                              ws.visited[CHOOSE i \in first :
                                           /\ ws.visited[i] \in new
                                           /\ Cardinality({j \in first : j <= i /\ ws.visited[j] \in new}) = n]]]

\* faulty variant: linkCount[k] = 1
BumpToOne(lc, k) == [x \in DOMAIN lc \cup {k} |-> IF x = k THEN 1 ELSE lc[x]]

\* linkCount[k] = (linkCount[k]||0) + 1
Bump(lc, k) ==
  [x \in DOMAIN lc \cup {k} |->
     IF x = k THEN (IF k \in DOMAIN lc THEN lc[k] ELSE 0) + 1 ELSE lc[x]]

\* visited.filter(k => getUnvisitedNeighbors(k).length > 0)
Frontier == SelectSeq(visited, LAMBDA k : getUnvisitedNeighbors(k, visitedSet) # {})

\* faulty variant: visitedSet.add(nxtKey) left out
SteppedNoSetAdd(curKey, nxtKey) ==
  [WalkState EXCEPT !.linkCount = [x \in DOMAIN @ \cup {curKey, nxtKey} |->
                                     (IF x \in DOMAIN @ THEN @[x] ELSE 0)
                                     + (IF x \in {curKey, nxtKey} THEN 1 ELSE 0)],
                    !.visited = Append(@, nxtKey)]

\* faulty variant: only the new node's counter is bumped
SteppedBumpNewOnly(curKey, nxtKey) ==
  [WalkState EXCEPT !.linkCount = [x \in DOMAIN @ \cup {nxtKey} |->
                                     (IF x \in DOMAIN @ THEN @[x] ELSE 0)
                                     + (IF x = nxtKey THEN 1 ELSE 0)],
                    !.visited = Append(@, nxtKey),
                    !.visitedSet = @ \cup {nxtKey}]

\* the walk state after the step along the edge curKey - nxtKey, before markAllLeaves
Stepped(curKey, nxtKey) ==
  [WalkState EXCEPT !.linkCount = Bump(Bump(@, curKey), nxtKey),
                    !.visited = Append(@, nxtKey),
                    !.visitedSet = @ \cup {nxtKey}]

-----------------------------------------------------------------------------
(* GRID SWITCH & RESET *)

\* faulty variant: the first cycle forced to the square grid
GridChoicesSquareFirst(kind) == IF kind = "setup" THEN {"square"} ELSE GRID_TYPES

\* the values random(GRID_TYPES) may return in the pickNewGrid of a tick of
\* the given kind ("setup" for the first cycle, "restart" for a later one)
GridChoices(kind) == GRID_TYPES

\* pickNewGrid(); `kind` and `before` only feed the history variable
pickNewGrid(kind, before) ==
  \E g \in GridChoices(kind) :
    \E startKey \in Built(g, width, height).startKeys :
      /\ currentGrid' = g
      /\ posMap' = Built(g, width, height).posMap
      /\ adj' = Built(g, width, height).adj
      /\ visited' = <<startKey>>
      /\ visitedSet' = {startKey}
      /\ linkCount' = [k \in {startKey} |-> 0]
      /\ deadMarked' = {}
      /\ lines' = <<>>
      /\ dots' = EmptyMap
      /\ tick' = [kind |-> kind, marked |-> before.marked,
                  countersKept |-> before.linkCount = linkCount,
                  choices |-> GridChoices(kind)]

-----------------------------------------------------------------------------
(* The callbacks *)

Init ==
  /\ \E c \in WalkCanvases : width = c[1] /\ height = c[2]
  /\ phase = "load"
  /\ posMap = EmptyMap
  /\ adj = EmptyMap
  /\ visited = <<>>
  /\ visitedSet = {}
  /\ linkCount = EmptyMap
  /\ deadMarked = {}
  /\ currentGrid = "undefined"
  /\ lines = <<>>
  /\ dots = EmptyMap
  /\ tick = [kind |-> "load", marked |-> <<>>, countersKept |-> TRUE, choices |-> {}]

setup ==
  /\ phase = "load"
  /\ phase' = "running"
  /\ pickNewGrid("setup", WalkState)
  /\ UNCHANGED <<width, height>>

Crash ==
  /\ phase' = "crashed"
  /\ tick' = [kind |-> "crash", marked |-> <<>>, countersKept |-> TRUE, choices |-> {}]
  /\ UNCHANGED <<width, height, posMap, adj, visited, visitedSet, linkCount,
                 deadMarked, currentGrid, lines, dots>>

draw ==
  /\ phase = "running"
  /\ IF \E k \in Range(visited) : Missing(k)
       THEN Crash
     ELSE IF Frontier = <<>>
       THEN \* color final leaves, then switch grid
            /\ pickNewGrid("restart", markAllLeaves(WalkState))
            /\ UNCHANGED <<width, height, phase>>
     ELSE \E curKey \in Range(Frontier) :
            \E nxtKey \in getUnvisitedNeighbors(curKey, visitedSet) :
              IF Missing(nxtKey)
                THEN Crash
              ELSE LET ws == markAllLeaves(Stepped(curKey, nxtKey))
                   IN /\ lines' = Append(lines, <<curKey, nxtKey>>)
                      /\ linkCount' = ws.linkCount
                      /\ visited' = ws.visited
                      /\ visitedSet' = ws.visitedSet
                      /\ deadMarked' = ws.deadMarked
                      /\ dots' = ws.dots
                      /\ tick' = [kind |-> "step", marked |-> ws.marked,
                                  countersKept |-> TRUE, choices |-> {}]
                      /\ UNCHANGED <<width, height, phase, posMap, adj, currentGrid>>

Next == setup \/ draw

Spec == Init /\ [][Next]_vars

\* the same program on the canvases of BuildCanvases, up to the end of setup()
InitBuild ==
  /\ \E c \in BuildCanvases : width = c[1] /\ height = c[2]
  /\ phase = "load"
  /\ posMap = EmptyMap
  /\ adj = EmptyMap
  /\ visited = <<>>
  /\ visitedSet = {}
  /\ linkCount = EmptyMap
  /\ deadMarked = {}
  /\ currentGrid = "undefined"
  /\ lines = <<>>
  /\ dots = EmptyMap
  /\ tick = [kind |-> "load", marked |-> <<>>, countersKept |-> TRUE, choices |-> {}]

SpecBuild == InitBuild /\ [][setup]_vars

-----------------------------------------------------------------------------
(* Notions the properties are stated in *)

Running == phase = "running"

\* the tick that comes next finds the frontier empty
Exhausted == Running /\ Frontier = <<>>

NoDuplicates(seq) == \A i, j \in DOMAIN seq : seq[i] = seq[j] => i = j

\* visited nodes with exactly one recorded edge and no unvisited neighbour
Leaves ==
  {k \in Range(visited) :
     /\ k \in DOMAIN linkCount /\ linkCount[k] = 1
     /\ adj[k] \subseteq visitedSet}

\* the state pickNewGrid leaves: the maps of the graph just built, the walk at
\* its start key, nothing marked
FreshCycle ==
  /\ Running
  /\ currentGrid \in GRID_TYPES
  /\ posMap = Built(currentGrid, width, height).posMap
  /\ adj = Built(currentGrid, width, height).adj
  /\ DOMAIN adj = DOMAIN posMap
  /\ Len(visited) = 1
  /\ visited[1] \in DOMAIN posMap
  /\ visitedSet = {visited[1]}
  /\ DOMAIN linkCount = {visited[1]}
  /\ linkCount[visited[1]] = 0
  /\ deadMarked = {}

RECURSIVE ReachVia(_, _)
ReachVia(S, nbrs) ==
  LET T == S \cup UNION {nbrs[k] : k \in S}
  IN IF T = S THEN S ELSE ReachVia(T, nbrs)

\* the nodes the drawn lines join to node k
LineNbrs == [k \in Range(visited) |->
               {l[2] : l \in {l \in Range(lines) : l[1] = k}}
               \cup {l[1] : l \in {l \in Range(lines) : l[2] = k}}]

RECURSIVE SumOver(_, _)
SumOver(f, S) ==
  IF S = {} THEN 0
  ELSE LET k == CHOOSE k \in S : TRUE IN f[k] + SumOver(f, S \ {k})

-----------------------------------------------------------------------------
(* C1: a draw tick that finds the frontier non-empty appends exactly one     *)
(* node to visited; that node was unvisited and is an adjacency neighbour of *)
(* a node already visited; nothing already visited is dropped or repeated.   *)
C1_StepAddsOneNeighbour ==
  [][(Running /\ Frontier # <<>>) =>
       \E n \in DOMAIN adj \ Range(visited) :
         /\ visited' = Append(visited, n)
         /\ visitedSet' = visitedSet \cup {n}
         /\ \E c \in Range(visited) : n \in adj[c]
         /\ NoDuplicates(visited')
         /\ Range(visited') = visitedSet']_vars

C1_Witness == tick.kind = "step" /\ Len(visited) >= 4 /\ Frontier # <<>>

(* C2: every cycle ends.  The number of steps made in the cycle never        *)
(* exceeds (node count - 1); every tick that finds the frontier non-empty    *)
(* makes one more step; a tick that finds the frontier empty finalizes the   *)
(* leaves and starts a new cycle.  So no cycle steps for ever.               *)
C2_CycleTerminates ==
  /\ [](Running => Len(lines) = Len(visited) - 1
                   /\ Len(visited) <= Cardinality(DOMAIN posMap))
  /\ [][(Running /\ Frontier # <<>>) =>
          tick'.kind = "step" /\ Len(visited') = Len(visited) + 1]_vars
  /\ [][Exhausted => tick'.kind = "restart" /\ Len(visited') = 1]_vars

C2_Witness ==
  /\ tick.kind = "restart"
  /\ tick.marked = <<>>

(* C3: after a tick that made a walk step, deadMarked is exactly the set of  *)
(* visited nodes with degree counter 1 and no unvisited neighbour.           *)
C3_MarkedAreExactlyLeaves == tick.kind = "step" => deadMarked = Leaves

C3_Witness ==
  /\ tick.kind = "step"
  /\ deadMarked # {}
  /\ Range(tick.marked) # deadMarked
  /\ Range(visited) # deadMarked

(* C4: within a cycle a node is leaf-marked at most once: a call of          *)
(* markAllLeaves marks only nodes not yet in deadMarked, each once, no node  *)
(* has more than one dot, and no tick of the cycle removes a mark.           *)
C4_MarkedOnce ==
  [][Running =>
       /\ NoDuplicates(tick'.marked)
       /\ Range(tick'.marked) \cap deadMarked = {}
       /\ tick'.kind = "step" =>
            /\ deadMarked \subseteq deadMarked'
            /\ deadMarked' = deadMarked \cup Range(tick'.marked)
            /\ DOMAIN dots' = deadMarked'
            /\ \A k \in DOMAIN dots' : dots'[k] = 1]_vars

C4_Witness ==
  /\ tick.kind = "step"
  /\ tick.marked # <<>>
  /\ deadMarked \ Range(tick.marked) # {}

(* C5: the adjacency relation every builder produces is symmetric.           *)
C5_AdjacencySymmetric ==
  Running => \A a \in DOMAIN adj : \A b \in adj[a] : b \in DOMAIN adj /\ a \in adj[b]

C5_Witness ==
  /\ Running
  /\ width = CanvasSize /\ height = CanvasSize
  /\ currentGrid = "triangular"
  /\ Cardinality(adj[coordKey(0, 0)]) = 6

(* C6: every visited node is a node of the current graph, and no lookup of   *)
(* a node ever fails.                                                        *)
C6_VisitedAreNodes ==
  /\ phase # "crashed"
  /\ Range(visited) \subseteq DOMAIN posMap \cap DOMAIN adj
  /\ visitedSet \subseteq DOMAIN posMap \cap DOMAIN adj

C6_Witness ==
  /\ currentGrid = "square"
  /\ Len(visited) = Cardinality(DOMAIN posMap)
  /\ Len(visited) > 1

(* C7: a tick that finds the frontier empty restarts at once, with fresh     *)
(* state; every grid type can be chosen, in the first cycle and in every     *)
(* later one.                                                                *)
C7_RestartIsFresh ==
  /\ [][Exhausted => tick'.kind = "restart"]_vars
  /\ [](tick.kind \in {"setup", "restart"} =>
          /\ FreshCycle
          /\ tick.choices = GRID_TYPES
          /\ \A g \in GRID_TYPES : Built(g, width, height).startKeys # {})

C7_Witness == tick.kind = "restart" /\ currentGrid = "hexagon"

(* C8: on the 600 x 600 canvas the square builder starts at cell 15,15, at   *)
(* position (300, 300), and every node lies between 20 and 580 in x and y.   *)
C8_SquareOnFullCanvas ==
  (Running /\ width = CanvasSize /\ height = CanvasSize /\ currentGrid = "square") =>
    /\ visited = <<"15,15">>
    /\ posMap["15,15"] = [x |-> 300 * Micro, y |-> 300 * Micro]
    /\ \A k \in DOMAIN posMap :
         /\ posMap[k].x >= 20 * Micro /\ posMap[k].x <= 580 * Micro
         /\ posMap[k].y >= 20 * Micro /\ posMap[k].y <= 580 * Micro

C8_Witness ==
  /\ Running /\ width = CanvasSize /\ height = CanvasSize /\ currentGrid = "square"
  /\ Cardinality(DOMAIN posMap) = 29 * 29

(* C9: a walk step adds 1 to the degree counters of the two ends of the new  *)
(* edge (the new node going from absent to 1) and changes no other counter;  *)
(* the tick that finds the frontier empty changes none before the reset.     *)
C9_DegreeCounters ==
  [][/\ (Running /\ Frontier # <<>>) =>
          LET cur == lines'[Len(lines')][1]
              nxt == lines'[Len(lines')][2]
          IN /\ cur \in DOMAIN linkCount
             /\ nxt \notin DOMAIN linkCount
             /\ DOMAIN linkCount' = DOMAIN linkCount \cup {nxt}
             /\ linkCount'[cur] = linkCount[cur] + 1
             /\ linkCount'[nxt] = 1
             /\ \A k \in DOMAIN linkCount \ {cur} : linkCount'[k] = linkCount[k]
     /\ Exhausted => tick'.countersKept]_vars

C9_Witness == tick.kind = "step" /\ \E k \in DOMAIN linkCount : linkCount[k] >= 3

(* C10: the drawn edges form a tree over the visited nodes, with             *)
(* |visited| - 1 edges and degree counters that sum to 2 * (|visited| - 1);  *)
(* when the frontier is empty the visited nodes are exactly the nodes        *)
(* reachable from the start key through adj.                                 *)
C10_SpanningTree ==
  Running =>
    /\ Len(lines) = Cardinality(Range(visited)) - 1
    /\ SumOver(linkCount, DOMAIN linkCount) = 2 * (Cardinality(Range(visited)) - 1)
    /\ \A l \in Range(lines) : l[2] \in adj[l[1]]
    /\ ReachVia({visited[1]}, LineNbrs) = Range(visited)
    /\ Frontier = <<>> => Range(visited) = ReachVia({visited[1]}, adj)

C10_Witness ==
  /\ Exhausted
  /\ currentGrid = "circular"
  /\ Len(lines) = Cardinality(DOMAIN posMap) - 1

====
